---- MODULE Spec2Model ----
(***************************************************************************)
(* LLM Knowledge Extractor: the /analyze and /search handlers of           *)
(* app/main.py, the metadata extractor of app/services/llm_service.py, the *)
(* keyword extractor of app/services/nlp_service.py and the analyses table *)
(* of app/database.py.                                                     *)
(*                                                                         *)
(* A Python str is a sequence of one-character strings; a float is an      *)
(* integer number of tenths; a datetime is a reading of the clock.         *)
(*                                                                         *)
(* Spec is the service with one request handler at a time, SpecConcurrent  *)
(* the started service with two handlers interleaved, SpecKeywords the     *)
(* callers of extract_keywords.                                            *)
(***************************************************************************)
EXTENDS Integers, Sequences, FiniteSets, TLC

VARIABLES analyzer, configured, analyses, clock, req, last_search, kw

vars == <<analyzer, configured, analyses, clock, req, last_search, kw>>

\* The most rows the analyses table holds in a run.
MaxRows == 2

\* The most tokens of a text given to extract_keywords, the largest top_n, and
\* the most calls one caller makes.
MaxTokens == 3
MaxTopN == 2
MaxCalls == 2

\* The request handlers that may be in flight together (threadpool workers).
Workers == {1}

None == [kind |-> "None"]

Min(a, b) == IF a < b THEN a ELSE b

(***************************************************************************)
(* Strings                                                                 *)
(***************************************************************************)

Upper == {"A", "B", "C", "D", "I", "L", "M", "T"}
Letters == Upper \cup {"a", "b", "c", "d", "g", "i", "l", "m", "n", "o", "r", "s", "t", "u", "z"}
Whitespace == {" "}

\* str.lower(), one character
LowerChar(c) ==
  CASE c = "A" -> "a" [] c = "B" -> "b" [] c = "C" -> "c" [] c = "D" -> "d"
    [] c = "I" -> "i" [] c = "L" -> "l" [] c = "M" -> "m" [] c = "T" -> "t"
    [] OTHER -> c

\* str.lower()
Lower(s) == [i \in 1..Len(s) |-> LowerChar(s[i])]

\* str.strip(): leading and trailing whitespace removed
RECURSIVE LStrip(_)
LStrip(s) == IF s # <<>> /\ Head(s) \in Whitespace THEN LStrip(Tail(s)) ELSE s

RECURSIVE RStrip(_)
RStrip(s) ==
  IF s # <<>> /\ s[Len(s)] \in Whitespace THEN RStrip(SubSeq(s, 1, Len(s) - 1)) ELSE s

Strip(s) == RStrip(LStrip(s))

\* fault: the blank test without the strip
IsBlank_no_strip(text) == text = <<>>

\* `not text or not text.strip()`
IsBlank(text) == text = <<>> \/ Strip(text) = <<>>

\* t occurs in s as a contiguous run of characters
Contains(s, t) ==
  \E i \in 0..(Len(s) - Len(t)) : SubSeq(s, i + 1, i + Len(t)) = t

(***************************************************************************)
(* json.dumps / json.loads of a list of str, str(float) / float(str)       *)
(***************************************************************************)

\* json.dumps escapes the quote and the backslash (ensure_ascii leaves the
\* ASCII characters of the model as they are)
EscapeChar(c) ==
  IF c = "\"" THEN <<"\\", "\"">> ELSE IF c = "\\" THEN <<"\\", "\\">> ELSE <<c>>

RECURSIVE EscapeStr(_)
EscapeStr(s) == IF s = <<>> THEN <<>> ELSE EscapeChar(Head(s)) \o EscapeStr(Tail(s))

JsonStr(s) == <<"\"">> \o EscapeStr(s) \o <<"\"">>

RECURSIVE JoinItems(_)
JoinItems(l) ==
  IF l = <<>> THEN <<>>
  ELSE IF Len(l) = 1 THEN JsonStr(l[1])
  ELSE JsonStr(l[1]) \o <<",", " ">> \o JoinItems(Tail(l))

\* json.dumps(list of str): ["a", "b"] with the separator ", "
JsonDumps(l) == <<"[">> \o JoinItems(l) \o <<"]">>

\* json.loads of such a text: a scan that collects the quoted strings
RECURSIVE ParseItems(_, _, _, _, _)
ParseItems(s, i, cur, acc, in_str) ==
  IF i > Len(s) THEN acc
  ELSE IF in_str
    THEN IF s[i] = "\\"
           THEN ParseItems(s, i + 2, Append(cur, s[i + 1]), acc, TRUE)
         ELSE IF s[i] = "\""
           THEN ParseItems(s, i + 1, <<>>, Append(acc, cur), FALSE)
         ELSE ParseItems(s, i + 1, Append(cur, s[i]), acc, TRUE)
    ELSE IF s[i] = "\""
           THEN ParseItems(s, i + 1, <<>>, acc, TRUE)
         ELSE ParseItems(s, i + 1, cur, acc, FALSE)

JsonLoads(s) == ParseItems(s, 1, <<>>, <<>>, FALSE)

Digits == <<"0", "1", "2", "3", "4", "5", "6", "7", "8", "9">>

DigitValue(c) == CHOOSE d \in 0..9 : Digits[d + 1] = c

\* str(float) of a float of |x| < 10 with one decimal: "0.9", "1.5", "-0.5"
FloatStr(x) ==
  LET a == IF x < 0 THEN -x ELSE x
  IN  (IF x < 0 THEN <<"-">> ELSE <<>>) \o <<Digits[(a \div 10) + 1], ".", Digits[(a % 10) + 1]>>

\* float(str) of such a text
FloatParse(s) ==
  LET neg == Head(s) = "-"
      d   == IF neg THEN Tail(s) ELSE s
      a   == DigitValue(d[1]) * 10 + DigitValue(d[3])
  IN  IF neg THEN -a ELSE a

(***************************************************************************)
(* Keyword extractor (app/services/nlp_service.py)                         *)
(***************************************************************************)

\* The tokenizer of the spaCy pipeline on the texts of the model: tokens are
\* separated by whitespace, and a full stop is a token of its own.
RECURSIVE Tokens(_, _, _)
Tokens(s, cur, acc) ==
  LET flush == IF cur = <<>> THEN acc ELSE Append(acc, cur)
  IN  IF s = <<>> THEN flush
      ELSE IF Head(s) \in Whitespace THEN Tokens(Tail(s), <<>>, flush)
      ELSE IF Head(s) = "." THEN Tokens(Tail(s), <<>>, Append(flush, <<".">>))
      ELSE Tokens(Tail(s), Append(cur, Head(s)), acc)

\* The tagger's linguistic resources for the words of the model
W_cat  == <<"c", "a", "t">>
W_cats == <<"c", "a", "t", "s">>
W_dog  == <<"d", "o", "g">>
W_ran  == <<"r", "a", "n">>
W_run  == <<"r", "u", "n">>
W_ai   == <<"a", "i">>
W_to   == <<"t", "o">>
W_top  == <<"t", "o", "p">>

Pos(w) ==
  IF w \in {W_cat, W_cats, W_dog, W_top} THEN "NOUN"
  ELSE IF w = W_ai THEN "PROPN"
  ELSE IF w = W_ran THEN "VERB"
  ELSE IF w = W_to THEN "ADP"
  ELSE IF w = <<".">> THEN "PUNCT"
  ELSE "X"

Lemma(w) == IF w = W_cats THEN W_cat ELSE IF w = W_ran THEN W_run ELSE w

\* token.text, token.lemma_, token.pos_, token.is_stop, token.is_punct, token.is_alpha
Token(w) ==
  [text     |-> w,
   lemma_   |-> Lemma(w),
   pos_     |-> Pos(w),
   is_stop  |-> w \in {W_to, W_top},
   is_punct |-> w = <<".">>,
   is_alpha |-> w # <<>> /\ \A i \in 1..Len(w) : w[i] \in Letters]

\* doc = nlp(s)
Nlp(s) == LET ws == Tokens(s, <<>>, <<>>) IN [i \in 1..Len(ws) |-> Token(ws[i])]

\* fault: the filter without the test of the length
IsKeywordToken_any_length(token) ==
  /\ token.pos_ \in {"NOUN", "PROPN"}
  /\ ~token.is_stop
  /\ ~token.is_punct
  /\ token.is_alpha

\* the filter of the list comprehension
IsKeywordToken(token) ==
  /\ token.pos_ \in {"NOUN", "PROPN"}
  /\ ~token.is_stop
  /\ ~token.is_punct
  /\ Len(token.text) > 2
  /\ token.is_alpha

RECURSIVE Nouns(_)
Nouns(doc) ==
  IF doc = <<>> THEN <<>>
  ELSE (IF IsKeywordToken(Head(doc)) THEN <<Head(doc).lemma_>> ELSE <<>>) \o Nouns(Tail(doc))

\* Counter(nouns): the number of occurrences of x
Count(x, nouns) == Cardinality({i \in 1..Len(nouns) : nouns[i] = x})

\* the keys of Counter(nouns), in the order of first insertion
RECURSIVE CounterKeys(_, _)
CounterKeys(nouns, seen) ==
  IF nouns = <<>> THEN seen
  ELSE IF \E i \in 1..Len(seen) : seen[i] = Head(nouns)
    THEN CounterKeys(Tail(nouns), seen)
    ELSE CounterKeys(Tail(nouns), Append(seen, Head(nouns)))

\* fault: a key goes before the keys of its own count
RECURSIVE InsertByCount_unstable(_, _, _)
InsertByCount_unstable(x, sorted, nouns) ==
  IF sorted = <<>> THEN <<x>>
  ELSE IF Count(Head(sorted), nouns) > Count(x, nouns)
    THEN <<Head(sorted)>> \o InsertByCount_unstable(x, Tail(sorted), nouns)
    ELSE <<x>> \o sorted

\* sorted(items, key=count, reverse=True) is stable: x goes after every key
\* whose count is at least its own
RECURSIVE InsertByCount(_, _, _)
InsertByCount(x, sorted, nouns) ==
  IF sorted = <<>> THEN <<x>>
  ELSE IF Count(Head(sorted), nouns) >= Count(x, nouns)
    THEN <<Head(sorted)>> \o InsertByCount(x, Tail(sorted), nouns)
    ELSE <<x>> \o sorted

RECURSIVE SortByCount(_, _, _)
SortByCount(keys, sorted, nouns) ==
  IF keys = <<>> THEN sorted
  ELSE SortByCount(Tail(keys), InsertByCount(Head(keys), sorted, nouns), nouns)

\* fault: every key returned, whatever n
MostCommon_all(nouns, n) == SortByCount(CounterKeys(nouns, <<>>), <<>>, nouns)

\* Counter(nouns).most_common(n)
MostCommon(nouns, n) ==
  LET sorted == SortByCount(CounterKeys(nouns, <<>>), <<>>, nouns)
  IN  SubSeq(sorted, 1, Min(n, Len(sorted)))

\* fault: the tagger given the text as it is
extract_keywords_no_lower(text, top_n) ==
  IF IsBlank(text) THEN <<>>
  ELSE LET nouns == Nouns(Nlp(text))
       IN  IF nouns = <<>> THEN <<>> ELSE MostCommon(nouns, top_n)

extract_keywords(text, top_n) ==
  IF IsBlank(text) THEN <<>>
  ELSE LET nouns == Nouns(Nlp(Lower(text)))
       IN  IF nouns = <<>> THEN <<>> ELSE MostCommon(nouns, top_n)

(***************************************************************************)
(* Metadata extractor (app/services/llm_service.py)                        *)
(***************************************************************************)

\* JSON values of the model's payload
Str(v)  == [t |-> "str", v |-> v]
Num(v)  == [t |-> "num", v |-> v]
List(v) == [t |-> "list", v |-> v]
Null    == [t |-> "null"]

\* An exception: its class, its origin, and whether str(e) contains "API"
\* or str(e).lower() contains "rate"
Exc(type, origin, mentions) == [type |-> type, origin |-> origin, mentions |-> mentions]

\* `except ValueError`: pydantic's ValidationError is a subclass of ValueError
IsValueError(e) == e.type \in {"ValueError", "ValidationError"}

IsRuntimeError(e) == e.type = "RuntimeError"

Raise(e) == [ok |-> FALSE, exc |-> e]

Return(v) == [ok |-> TRUE, value |-> v]

MetadataFields == {"summary", "title", "topics", "sentiment", "confidence"}

\* ExtractedMetadata(**metadata_dict): every declared field is required (none
\* has a default), each is checked against its type only, and a key that is
\* no field is ignored
Validates(obj) ==
  /\ MetadataFields \subseteq DOMAIN obj
  /\ obj.summary.t = "str"
  /\ obj.title.t \in {"str", "null"}
  /\ obj.topics.t = "list"
  /\ obj.sentiment.t = "str"
  /\ obj.confidence.t = "num"

ExtractedMetadata(obj) ==
  [summary    |-> obj.summary.v,
   title      |-> obj.title,
   topics     |-> obj.topics.v,
   sentiment  |-> obj.sentiment.v,
   confidence |-> obj.confidence.v]

\* TextAnalyzer.forward: out is what self.extract(text=text) does, an
\* exception of the model call or the text of result.metadata. called: the
\* model was called
forward(text, out) ==
  IF IsBlank(text)
    THEN [called |-> FALSE, result |-> Raise(Exc("ValueError", "empty", FALSE))]
  ELSE [called |-> TRUE,
        result |->
          IF out.kind = "raise" THEN Raise(Exc(out.exc, "model_call", out.mentions))
          ELSE IF out.json = "invalid" THEN Raise(Exc("ValueError", "json", FALSE))
          ELSE IF out.json = "array" THEN Raise(Exc("TypeError", "validation", FALSE))
          ELSE IF ~Validates(out.obj)
            THEN Raise(Exc("ValidationError", "validation", out.mentions))
          ELSE Return(ExtractedMetadata(out.obj))]

\* the except clause of analyze_text
WrapLLMError(e) ==
  IF e.mentions THEN Exc("RuntimeError", e.origin, e.mentions) ELSE e

\* fault: the missing configuration reported as a service error
analyze_text_unconfigured_runtime(text, the_analyzer, out) ==
  IF IsBlank(text)
    THEN [called |-> FALSE, result |-> Raise(Exc("ValueError", "empty", FALSE))]
  ELSE IF the_analyzer = "None"
    THEN [called |-> FALSE, result |-> Raise(Exc("RuntimeError", "not_configured", FALSE))]
  ELSE LET f == forward(text, out)
       IN  [called |-> f.called,
            result |-> IF f.result.ok THEN f.result ELSE Raise(WrapLLMError(f.result.exc))]

\* analyze_text(text) with the module's _analyzer
analyze_text(text, the_analyzer, out) ==
  IF IsBlank(text)
    THEN [called |-> FALSE, result |-> Raise(Exc("ValueError", "empty", FALSE))]
  ELSE IF the_analyzer = "None"
    THEN [called |-> FALSE, result |-> Raise(Exc("ValueError", "not_configured", FALSE))]
  ELSE LET f == forward(text, out)
       IN  [called |-> f.called,
            result |-> IF f.result.ok THEN f.result ELSE Raise(WrapLLMError(f.result.exc))]

(***************************************************************************)
(* The analyses table (app/database.py) and SQLite's LIKE                  *)
(***************************************************************************)

\* Analysis(...) as inserted: the id is the next rowid, created_at the
\* default datetime.utcnow
Analysis(id, text, metadata, keywords, now) ==
  [id         |-> id,
   raw_text   |-> text,
   summary    |-> metadata.summary,
   title      |-> metadata.title,
   topics     |-> JsonDumps(metadata.topics),
   sentiment  |-> metadata.sentiment,
   keywords   |-> JsonDumps(keywords),
   confidence |-> FloatStr(metadata.confidence),
   created_at |-> now]

\* x LIKE pattern: % matches any run of characters, _ any one character, any
\* other character itself, ASCII letters without regard to case
RECURSIVE LikeAt(_, _, _, _)
LikeAt(x, i, pattern, j) ==
  IF j > Len(pattern) THEN i > Len(x)
  ELSE IF pattern[j] = "%"
    THEN LikeAt(x, i, pattern, j + 1) \/ (i <= Len(x) /\ LikeAt(x, i + 1, pattern, j))
  ELSE IF i > Len(x) THEN FALSE
  ELSE IF pattern[j] = "_" THEN LikeAt(x, i + 1, pattern, j + 1)
  ELSE LowerChar(x[i]) = LowerChar(pattern[j]) /\ LikeAt(x, i + 1, pattern, j + 1)

Like(x, pattern) == LikeAt(x, 1, pattern, 1)

\* AnalysisResponse(...) of a row
AnalysisResponse(r) ==
  [id         |-> r.id,
   summary    |-> r.summary,
   title      |-> r.title,
   topics     |-> JsonLoads(r.topics),
   sentiment  |-> r.sentiment,
   keywords   |-> JsonLoads(r.keywords),
   confidence |-> FloatParse(r.confidence),
   created_at |-> r.created_at]

(***************************************************************************)
(* Inputs                                                                  *)
(***************************************************************************)

T_cats  == <<"C", "a", "t", "s", " ", "c", "a", "t", " ", "d", "o", "g">>
T_blank == <<" ", " ">>

\* The JSON body of POST /analyze: text missing, empty, blank or not
Bodies ==
  {[has_text |-> FALSE, text |-> <<>>]}
    \cup {[has_text |-> TRUE, text |-> t] : t \in {<<>>, T_blank, T_cats}}

Topic_AI  == <<"A", "I">>
Topic_ml  == <<"m", "l">>
Topic_db  == <<"d", "b">>
Topic_a_b == <<"a", "_", "b">>
Topic_pct == <<"c", "%">>

Obj_good ==
  [summary    |-> Str("sum"),
   title      |-> Str("T"),
   topics     |-> List(<<Topic_AI, Topic_ml, Topic_db>>),
   sentiment  |-> Str("positive"),
   confidence |-> Num(9)]

\* well-formed, and none of the three contracts of the prompt kept
Obj_loose ==
  [summary    |-> Str("sum"),
   title      |-> Null,
   topics     |-> List(<<Topic_a_b, Topic_pct>>),
   sentiment  |-> Str("mixed"),
   confidence |-> Num(15)]

Obj_extra ==
  [summary    |-> Str("sum"),
   title      |-> Str("T"),
   topics     |-> List(<<Topic_AI, Topic_ml, Topic_db>>),
   sentiment  |-> Str("positive"),
   confidence |-> Num(9),
   notes      |-> Str("n")]

Obj_missing ==
  [summary    |-> Str("sum"),
   title      |-> Str("T"),
   topics     |-> List(<<Topic_AI, Topic_ml, Topic_db>>),
   sentiment  |-> Str("positive")]

Obj_badtype ==
  [summary    |-> Str("sum"),
   title      |-> Str("T"),
   topics     |-> Str("AI"),
   sentiment  |-> Str("positive"),
   confidence |-> Num(9)]

\* Exception classes the model call raises
CallErrors == {"ValueError", "RuntimeError", "ConnectionError"}

\* What one call of the model does
ModelOutcomes ==
  {[kind |-> "raise", exc |-> e, mentions |-> m] : e \in CallErrors, m \in BOOLEAN}
    \cup {[kind |-> "text", json |-> j] : j \in {"invalid", "array"}}
    \cup {[kind |-> "text", json |-> "object", obj |-> o, mentions |-> FALSE] :
            o \in {Obj_good, Obj_loose, Obj_extra}}
    \cup {[kind |-> "text", json |-> "object", obj |-> o, mentions |-> m] :
            o \in {Obj_missing, Obj_badtype}, m \in BOOLEAN}

\* The topic parameter of GET /search: absent, or a string
Param(v) == [given |-> TRUE, value |-> v]
Absent   == [given |-> FALSE, value |-> <<>>]

SearchTopics ==
  {Absent} \cup {Param(v) : v \in {<<>>, <<"a", "i">>, <<"C", "A", "T">>, <<"_">>, <<"%">>,
                                   <<"I", "\"", ",", " ", "\"", "m">>}}

(***************************************************************************)
(* State                                                                   *)
(*   analyzer     the module's _analyzer: "None" or "TextAnalyzer"         *)
(*   configured   configure_dspy has completed at least once               *)
(*   analyses     the rows of the analyses table, in rowid order           *)
(*   clock        the reading of datetime.utcnow                           *)
(*   req          each worker's request: where its handler is, and what it *)
(*                has done                                                 *)
(*   last_search  the answer of a GET /search or GET / that has just been  *)
(*                given; the service's next step drops it                  *)
(*   kw           a caller of extract_keywords: its text, its top_n, and   *)
(*                the calls it has made with their results                 *)
(***************************************************************************)

NoBody == [has_text |-> FALSE, text |-> <<>>]

Idle ==
  [pc |-> "idle", request |-> NoBody, keywords |-> <<>>, metadata |-> None, status |-> 0,
   error |-> None, row_id |-> 0, response |-> None, kw_calls |-> 0, llm_calls |-> 0,
   commits |-> 0, rows_before |-> 0, configured_at_call |-> FALSE, detail |-> "",
   metadata_calls |-> 0, model_out |-> None]

Init ==
  /\ analyzer = "None"
  /\ configured = FALSE
  /\ analyses = <<>>
  /\ clock = 0
  /\ req = [w \in Workers |-> Idle]
  /\ last_search = None
  /\ kw = None

InFlight == {w \in DOMAIN req : req[w].pc \notin {"idle", "responded"}}

\* the except clauses of analyze: the status code and the head of the detail
StatusOf(e) == IF IsValueError(e) THEN 400 ELSE 503

DetailOf(e) ==
  IF IsValueError(e) THEN "str(e)"
  ELSE IF IsRuntimeError(e) THEN "Service temporarily unavailable"
  ELSE "Internal error"

Fail(r, e) ==
  [r EXCEPT !.pc = "responded", !.status = StatusOf(e), !.detail = DetailOf(e), !.error = e]

(***************************************************************************)
(* POST /analyze (app/main.py), one step at a time                         *)
(***************************************************************************)

\* fault: the text field without min_length
AnalyzeRequestValid_no_min_length(body) == body.has_text

\* AnalyzeRequest: text is required and min_length=1, or the request is
\* answered 422 and analyze is not called
AnalyzeRequestValid(body) == body.has_text /\ Len(body.text) >= 1

analyze_request(w, body) ==
  /\ req[w].pc \in {"idle", "responded"}
  /\ \/ ~AnalyzeRequestValid(body)
     \/ Len(analyses) + Cardinality(InFlight) < MaxRows
  /\ req' = [req EXCEPT ![w] =
       LET r == [Idle EXCEPT !.request = body, !.rows_before = Len(analyses)]
       IN  IF AnalyzeRequestValid(body)
             THEN [r EXCEPT !.pc = "received"]
             ELSE [r EXCEPT !.pc = "responded", !.status = 422, !.detail = "min_length"]]
  /\ last_search' = None
  /\ UNCHANGED <<analyzer, configured, analyses, clock, kw>>

\* keywords = extract_keywords(request.text, top_n=3)
analyze_keywords(w) ==
  /\ req[w].pc = "received"
  /\ req' = [req EXCEPT ![w] =
       [@ EXCEPT !.pc = "keywords_extracted",
                 !.keywords = extract_keywords(req[w].request.text, 3),
                 !.kw_calls = @ + 1]]
  /\ last_search' = None
  /\ UNCHANGED <<analyzer, configured, analyses, clock, kw>>

\* fault: a failed analyze_text is called again
analyze_metadata_retry(w, out) ==
  /\ req[w].pc = "keywords_extracted"
  /\ LET a == analyze_text(req[w].request.text, analyzer, out)
         r == [req[w] EXCEPT !.llm_calls = @ + (IF a.called THEN 1 ELSE 0),
                             !.metadata_calls = @ + 1,
                             !.model_out = IF a.called THEN out ELSE None,
                             !.configured_at_call = configured]
     IN  req' = [req EXCEPT ![w] =
           IF a.result.ok
             THEN [r EXCEPT !.pc = "metadata_extracted", !.metadata = a.result.value]
             ELSE IF r.metadata_calls < 2 THEN r ELSE Fail(r, a.result.exc)]
  /\ last_search' = None
  /\ UNCHANGED <<analyzer, configured, analyses, clock, kw>>

\* metadata = analyze_text(request.text)
analyze_metadata(w, out) ==
  /\ req[w].pc = "keywords_extracted"
  /\ LET a == analyze_text(req[w].request.text, analyzer, out)
         r == [req[w] EXCEPT !.llm_calls = @ + (IF a.called THEN 1 ELSE 0),
                             !.metadata_calls = @ + 1,
                             !.model_out = IF a.called THEN out ELSE None,
                             !.configured_at_call = configured]
     IN  req' = [req EXCEPT ![w] =
           IF a.result.ok
             THEN [r EXCEPT !.pc = "metadata_extracted", !.metadata = a.result.value]
             ELSE Fail(r, a.result.exc)]
  /\ last_search' = None
  /\ UNCHANGED <<analyzer, configured, analyses, clock, kw>>

\* fault: the id taken from the number of rows the request found on arrival
NextId_read_at_arrival(w) == req[w].rows_before + 1

\* id INTEGER PRIMARY KEY: SQLite gives the inserted row the largest rowid of
\* the table plus one, inside the write transaction
NextId(w) == Len(analyses) + 1

\* fault: the commit writes over the newest row of the table
analyze_commit_overwrite(w, ok, tick) ==
  /\ req[w].pc = "metadata_extracted"
  /\ IF ok
       THEN LET id == IF analyses = <<>> THEN 1 ELSE Len(analyses)
                row == Analysis(id, req[w].request.text, req[w].metadata,
                                req[w].keywords, clock')
            IN  /\ clock' = clock + tick
                /\ analyses' = IF analyses = <<>> THEN <<row>>
                                ELSE [analyses EXCEPT ![id] = row]
                /\ req' = [req EXCEPT ![w] =
                     [@ EXCEPT !.pc = "persisted", !.row_id = id, !.commits = @ + 1]]
       ELSE /\ req' = [req EXCEPT ![w] =
                 Fail([@ EXCEPT !.commits = @ + 1], Exc("OperationalError", "commit", FALSE))]
            /\ UNCHANGED <<analyses, clock>>
  /\ last_search' = None
  /\ UNCHANGED <<analyzer, configured, kw>>

\* analysis = Analysis(...); db.add(analysis); db.commit(): the row gets the
\* next rowid and the clock's reading, or the commit raises and no row is
\* written
analyze_commit(w, ok, tick) ==
  /\ req[w].pc = "metadata_extracted"
  /\ IF ok
       THEN /\ clock' = clock + tick
            /\ analyses' = Append(analyses,
                 Analysis(NextId(w), req[w].request.text, req[w].metadata,
                          req[w].keywords, clock'))
            /\ req' = [req EXCEPT ![w] =
                 [@ EXCEPT !.pc = "persisted", !.row_id = NextId(w),
                           !.commits = @ + 1]]
       ELSE /\ req' = [req EXCEPT ![w] =
                 Fail([@ EXCEPT !.commits = @ + 1], Exc("OperationalError", "commit", FALSE))]
            /\ UNCHANGED <<analyses, clock>>
  /\ last_search' = None
  /\ UNCHANGED <<analyzer, configured, kw>>

\* db.refresh(analysis); return AnalysisResponse(...): 201, or the refresh
\* raises
analyze_respond(w, ok) ==
  /\ req[w].pc = "persisted"
  /\ req' = [req EXCEPT ![w] =
       IF ok
         THEN [@ EXCEPT !.pc = "responded", !.status = 201,
                        !.response = AnalysisResponse(analyses[req[w].row_id])]
         ELSE Fail(@, Exc("OperationalError", "refresh", FALSE))]
  /\ last_search' = None
  /\ UNCHANGED <<analyzer, configured, analyses, clock, kw>>

(***************************************************************************)
(* configure_dspy, GET /search, GET /                                      *)
(***************************************************************************)

\* configure_dspy: _analyzer = TextAnalyzer(), unless dspy.LM or
\* dspy.configure raises first
configure_dspy(ok) ==
  /\ analyzer' = IF ok THEN "TextAnalyzer" ELSE analyzer
  /\ configured' = (configured \/ ok)
  /\ last_search' = None
  /\ UNCHANGED <<analyses, clock, req, kw>>

\* fault: the filter without the keywords column
Matches_topics_only(r, topic) ==
  IF topic.given /\ topic.value # <<>>
    THEN Like(r.topics, <<"%">> \o Lower(topic.value) \o <<"%">>)
    ELSE TRUE

\* `if topic:` and the filter of the query
Matches(r, topic) ==
  IF topic.given /\ topic.value # <<>>
    THEN LET search_term == <<"%">> \o Lower(topic.value) \o <<"%">>
         IN  Like(r.topics, search_term) \/ Like(r.keywords, search_term)
    ELSE TRUE

\* the rowids of the rows the query selects
Selected(topic) == {i \in 1..Len(analyses) : Matches(analyses[i], topic)}

\* ORDER BY created_at DESC: an order of the selected rows in which created_at
\* never increases (rows of equal created_at come in an order SQLite chooses)
OrderedByCreatedAtDesc(ids, order) ==
  \A i, j \in 1..Len(order) :
    i < j => /\ order[i] # order[j]
             /\ analyses[order[i]].created_at >= analyses[order[j]].created_at

QueryResults(ids) ==
  {order \in [1..Cardinality(ids) -> ids] : OrderedByCreatedAtDesc(ids, order)}

\* results = query.order_by(Analysis.created_at.desc()).all(): last_search
\* keeps the rows of the answer by their rowids
search(topic) ==
  /\ \E order \in QueryResults(Selected(topic)) :
       last_search' = [kind |-> "search", topic |-> topic, results |-> order]
  /\ UNCHANGED <<analyzer, configured, analyses, clock, req, kw>>

\* SearchResponse(results=response_list, count=len(response_list)) of the
\* answer in last_search
SearchResponse ==
  LET response_list ==
        [i \in 1..Len(last_search.results) |->
           AnalysisResponse(analyses[last_search.results[i]])]
  IN  [results |-> response_list, count |-> Len(response_list)]

\* HealthResponse(status="healthy", service=..., version="1.0.0")
HealthResponse ==
  [status |-> "healthy", service |-> "LLM Knowledge Extractor", version |-> "1.0.0"]

\* GET /: the health check reads nothing and writes nothing
root ==
  /\ last_search' = [kind |-> "root", response |-> HealthResponse]
  /\ UNCHANGED <<analyzer, configured, analyses, clock, req, kw>>

Next ==
  \/ \E w \in Workers, body \in Bodies : analyze_request(w, body)
  \/ \E w \in Workers : analyze_keywords(w)
  \/ \E w \in Workers, out \in ModelOutcomes : analyze_metadata(w, out)
  \/ \E w \in Workers, ok \in BOOLEAN, tick \in {0, 1} : analyze_commit(w, ok, tick)
  \/ \E w \in Workers, ok \in BOOLEAN : analyze_respond(w, ok)
  \/ \E ok \in BOOLEAN : configure_dspy(ok)
  \/ \E topic \in SearchTopics : search(topic)
  \/ root

Spec == Init /\ [][Next]_vars

(***************************************************************************)
(* Callers of extract_keywords (app/services/nlp_service.py): a caller     *)
(* has a text and a top_n, and calls the function on the text as it is or  *)
(* lower-cased.                                                            *)
(***************************************************************************)

W_Cats == <<"C", "a", "t", "s">>
W_AI   == <<"A", "I">>

KwWords == {W_Cats, W_cat, W_dog, W_AI, W_to, W_top}

\* the words of a text, one space between two
RECURSIVE JoinWords(_)
JoinWords(ws) ==
  IF ws = <<>> THEN <<>>
  ELSE IF Len(ws) = 1 THEN ws[1]
  ELSE ws[1] \o <<" ">> \o JoinWords(Tail(ws))

KwTexts ==
  {T_blank} \cup {JoinWords(ws) : ws \in UNION {[1..n -> KwWords] : n \in 0..MaxTokens}}

InitKeywords ==
  /\ analyzer = "None"
  /\ configured = FALSE
  /\ analyses = <<>>
  /\ clock = 0
  /\ req = [w \in Workers |-> Idle]
  /\ last_search = None
  /\ kw \in [text : KwTexts, top_n : 0..MaxTopN, calls : {<<>>}]

\* keywords = extract_keywords(text, top_n)
extract_keywords_call(text) ==
  /\ Len(kw.calls) < MaxCalls
  /\ kw' = [kw EXCEPT !.calls =
       Append(@, [text |-> text, result |-> extract_keywords(text, kw.top_n)])]
  /\ UNCHANGED <<analyzer, configured, analyses, clock, req, last_search>>

NextKeywords == \E text \in {kw.text, Lower(kw.text)} : extract_keywords_call(text)

SpecKeywords == InitKeywords /\ [][NextKeywords]_vars

(***************************************************************************)
(* Concurrent POST /analyze: analyze is a sync handler, so the server runs *)
(* each request on a thread of its pool, with a session of its own         *)
(* (get_db). The service has started: startup_event has configured the     *)
(* analyzer.                                                               *)
(***************************************************************************)

Handlers == {1, 2}

T_body == [has_text |-> TRUE, text |-> T_cats]

\* What a model call does in the concurrent runs
ConcurrentOutcomes ==
  {[kind |-> "text", json |-> "object", obj |-> Obj_good, mentions |-> FALSE],
   [kind |-> "raise", exc |-> "ConnectionError", mentions |-> FALSE]}

InitConcurrent ==
  /\ analyzer = "TextAnalyzer"
  /\ configured = TRUE
  /\ analyses = <<>>
  /\ clock = 0
  /\ req = [w \in Handlers |-> Idle]
  /\ last_search = None
  /\ kw = None

NextConcurrent ==
  \/ \E w \in Handlers : analyze_request(w, T_body)
  \/ \E w \in Handlers : analyze_keywords(w)
  \/ \E w \in Handlers, out \in ConcurrentOutcomes : analyze_metadata(w, out)
  \/ \E w \in Handlers, ok \in BOOLEAN, tick \in {0, 1} : analyze_commit(w, ok, tick)
  \/ \E w \in Handlers, ok \in BOOLEAN : analyze_respond(w, ok)

SpecConcurrent == InitConcurrent /\ [][NextConcurrent]_vars

(***************************************************************************)
(* Properties                                                              *)
(***************************************************************************)

Responded(w) == req[w].pc = "responded"

\* analyze_text has been called and has returned or raised
MetadataStepDone(w) ==
  \/ req[w].pc \in {"metadata_extracted", "persisted"}
  \/ Responded(w) /\ req[w].status # 422

Failed(w) == Responded(w) /\ req[w].error # None

\* no row was written since the request arrived
StoreAsBefore(w) == Len(analyses) = req[w].rows_before

WhitespaceOnly(text) == text # <<>> /\ \A i \in 1..Len(text) : text[i] \in Whitespace

NonBlank(text) == \E i \in 1..Len(text) : text[i] \notin Whitespace

\* t is in s as a substring, letter case apart
ContainsCI(s, t) == Contains(Lower(s), Lower(t))

Filtered ==
  last_search.kind = "search" /\ last_search.topic.given /\ last_search.topic.value # <<>>

Unfiltered ==
  last_search.kind = "search" /\ ~(last_search.topic.given /\ last_search.topic.value # <<>>)

Sentiments == {"positive", "neutral", "negative"}

\* C1: creation is all-or-nothing: a request answered 201 has written one row,
\* and a request answered anything else has left the table as it was when the
\* request arrived.
C1_AllOrNothing ==
  \A w \in Workers :
    Responded(w) =>
      /\ req[w].status = 201 => Len(analyses) = req[w].rows_before + 1
      /\ req[w].status # 201 => StoreAsBefore(w)

\* C2: every 201 response, and every row of the table, has exactly 3 topics,
\* a sentiment among positive, neutral, negative, and a confidence in
\* [0.0, 1.0] (0..10 tenths).
C2_ResponseContract ==
  /\ \A w \in Workers :
       Responded(w) /\ req[w].status = 201 =>
         /\ Len(req[w].response.topics) = 3
         /\ req[w].response.sentiment \in Sentiments
         /\ req[w].response.confidence \in 0..10
  /\ \A i \in 1..Len(analyses) :
       /\ Len(JsonLoads(analyses[i].topics)) = 3
       /\ analyses[i].sentiment \in Sentiments
       /\ FloatParse(analyses[i].confidence) \in 0..10

\* C3: when the model's output is not valid JSON or fails validation, the
\* request is answered 503 and no row is written.
C3_MalformedIs503 ==
  \A w \in Workers :
    Failed(w) /\ req[w].error.origin \in {"json", "validation"} =>
      req[w].status = 503 /\ StoreAsBefore(w)

\* C4: when the model call itself fails, analyze_text raises RuntimeError, no
\* malformed output is signalled by RuntimeError, and the request is answered
\* 503 with no row written.
C4_CallFailureIsRuntimeError ==
  \A w \in Workers :
    /\ Failed(w) /\ req[w].error.origin = "model_call" =>
         /\ req[w].error.type = "RuntimeError"
         /\ req[w].status = 503
         /\ StoreAsBefore(w)
    /\ Failed(w) /\ req[w].error.origin \in {"json", "validation"} =>
         req[w].error.type # "RuntimeError"

\* C5: a request whose text is non-empty and all whitespace never calls the
\* model and writes no row, and it is answered 400.
C5_WhitespaceIs400 ==
  /\ \A w \in Workers :
       req[w].pc # "idle" /\ WhitespaceOnly(req[w].request.text) =>
         /\ req[w].llm_calls = 0
         /\ req[w].commits = 0
         /\ StoreAsBefore(w)
         /\ req[w].pc \in {"received", "keywords_extracted", "responded"}
         /\ Responded(w) => req[w].status = 400
  /\ \A i \in 1..Len(analyses) : ~WhitespaceOnly(analyses[i].raw_text)

C5_Witness ==
  \E w \in Workers :
    /\ Responded(w)
    /\ WhitespaceOnly(req[w].request.text)
    /\ req[w].status = 400
    /\ req[w].kw_calls = 1
    /\ analyzer = "TextAnalyzer"

\* C6: a request whose text is missing or empty is answered 422 without the
\* handler running: no extractor is called, no row is written, and a search of
\* everything made after it counts the rows the table held before it.
C6_EmptyIs422 ==
  \A w \in Workers :
    req[w].pc # "idle" /\ (~req[w].request.has_text \/ req[w].request.text = <<>>) =>
      /\ Responded(w)
      /\ req[w].status = 422
      /\ req[w].kw_calls = 0
      /\ req[w].llm_calls = 0
      /\ req[w].commits = 0
      /\ StoreAsBefore(w)
      /\ Unfiltered => SearchResponse.count = req[w].rows_before

C6_Witness ==
  \E w \in Workers :
    /\ Responded(w)
    /\ req[w].request.has_text
    /\ req[w].request.text = <<>>
    /\ req[w].status = 422
    /\ req[w].rows_before = 1
    /\ Unfiltered
    /\ SearchResponse.count = 1

\* C7: an analyze_text call on non-blank text made before configure_dspy has
\* ever completed raises ValueError (400, not 503), calls no model and writes
\* no row; a call made after configure_dspy has completed never fails with the
\* not-configured error.
C7_ConfigureBeforeUse ==
  \A w \in Workers :
    MetadataStepDone(w) /\ NonBlank(req[w].request.text) =>
      /\ ~req[w].configured_at_call =>
           /\ Failed(w)
           /\ IsValueError(req[w].error)
           /\ req[w].status = 400
           /\ req[w].llm_calls = 0
           /\ StoreAsBefore(w)
      /\ req[w].configured_at_call =>
           req[w].error = None \/ req[w].error.origin # "not_configured"

C7_Witness ==
  \E w \in Workers :
    /\ Failed(w)
    /\ NonBlank(req[w].request.text)
    /\ ~req[w].configured_at_call
    /\ req[w].error.origin = "not_configured"
    /\ req[w].status = 400
    /\ configured

\* C8: a search with no topic, or an empty one, returns every row once, counts
\* them all, and returns a row written later before every row written earlier.
C8_MostRecentFirst ==
  Unfiltered =>
    /\ SearchResponse.count = Len(analyses)
    /\ \A k \in 1..Len(analyses) :
         Cardinality({i \in 1..Len(last_search.results) : last_search.results[i] = k}) = 1
    /\ \A i, j \in 1..Len(last_search.results) :
         i < j => last_search.results[i] > last_search.results[j]

\* C9: a search with a non-empty topic returns only rows whose serialized
\* topics or serialized keywords contain the topic, letter case apart.
C9_OnlyMatches ==
  Filtered =>
    \A i \in 1..Len(last_search.results) :
      LET r == analyses[last_search.results[i]]
      IN  \/ ContainsCI(r.topics, last_search.topic.value)
          \/ ContainsCI(r.keywords, last_search.topic.value)

\* C10: a search with a non-empty topic returns every row whose serialized
\* topics or serialized keywords contain the topic, letter case apart and
\* across the separator of two list elements.
C10_AllMatches ==
  Filtered =>
    \A k \in 1..Len(analyses) :
      (\/ ContainsCI(analyses[k].topics, last_search.topic.value)
       \/ ContainsCI(analyses[k].keywords, last_search.topic.value))
        => \E i \in 1..Len(last_search.results) : last_search.results[i] = k

C10_Witness ==
  /\ Filtered
  /\ last_search.topic.value = <<"I", "\"", ",", " ", "\"", "m">>
  /\ Len(last_search.results) = 1
  /\ Len(analyses) = 2

\* C11: under any interleaving of concurrent analyze requests, a request
\* answered 201 has committed once and its row is the one row of the table
\* with its id, no two rows (and no two requests) share an id, and the ids
\* increase in the order in which the rows were inserted.
C11_ConcurrentCreates ==
  /\ \A i, j \in 1..Len(analyses) : i < j => analyses[i].id < analyses[j].id
  /\ \A w \in DOMAIN req :
       req[w].status = 201 =>
         /\ req[w].commits = 1
         /\ Cardinality({i \in 1..Len(analyses) : analyses[i].id = req[w].row_id}) = 1
         /\ req[w].response.id = req[w].row_id
  /\ \A v, w \in DOMAIN req :
       v # w /\ req[v].row_id # 0 /\ req[w].row_id # 0 => req[v].row_id # req[w].row_id

\* two requests that both arrived at the empty table are both answered 201
C11_Witness ==
  /\ DOMAIN req = Handlers
  /\ \A w \in Handlers :
       req[w].status = 201 /\ req[w].rows_before = 0 /\ req[w].response.id = req[w].row_id
  /\ Len(analyses) = 2

\* the call of extract_keywords that has just returned
Called == kw # None /\ kw.calls # <<>>

LastCall == kw.calls[Len(kw.calls)]

\* the tokens the tagger makes of the text
Doc(text) == Nlp(Lower(text))

\* a token the filter keeps: a common or proper noun, no stopword, no
\* punctuation, purely alphabetic, longer than 2 characters
Kept(token) ==
  /\ token.pos_ = "NOUN" \/ token.pos_ = "PROPN"
  /\ token.is_stop = FALSE
  /\ token.is_punct = FALSE
  /\ token.is_alpha = TRUE
  /\ Len(token.text) >= 3

\* the lemmas of the kept tokens, in the order of the tokens
RECURSIVE KeptLemmas(_)
KeptLemmas(doc) ==
  IF doc = <<>> THEN <<>>
  ELSE (IF Kept(Head(doc)) THEN <<Head(doc).lemma_>> ELSE <<>>) \o KeptLemmas(Tail(doc))

Distinct(seq) == {seq[i] : i \in 1..Len(seq)}

Frequency(x, seq) == Cardinality({i \in 1..Len(seq) : seq[i] = x})

FirstAt(x, seq) == CHOOSE i \in 1..Len(seq) : seq[i] = x /\ \A j \in 1..(i - 1) : seq[j] # x

\* C12: every keyword returned is the lemma of a token the filter keeps, no
\* keyword is returned twice, and the result is empty when the text is empty
\* or whitespace-only or when the filter keeps no token.
C12_KeywordsAreKeptLemmas ==
  Called =>
    LET result == LastCall.result
        lemmas == KeptLemmas(Doc(LastCall.text))
    IN  /\ \A k \in 1..Len(result) : result[k] \in Distinct(lemmas)
        /\ \A k, l \in 1..Len(result) : k # l => result[k] # result[l]
        /\ (LastCall.text = <<>> \/ WhitespaceOnly(LastCall.text) \/ lemmas = <<>>)
             => result = <<>>

\* a text with a short proper noun, a stopword noun and a plural: the one
\* keyword is the lemma of the plural
C12_Witness ==
  /\ Called
  /\ LastCall.text = JoinWords(<<W_AI, W_top, W_Cats>>)
  /\ LastCall.result = <<W_cat>>

\* C13: for a positive top_n, the number of keywords returned is the smaller of
\* top_n and the number of distinct lemmas of the kept tokens.
C13_LengthIsMin ==
  Called /\ kw.top_n > 0 =>
    LET n == Cardinality(Distinct(KeptLemmas(Doc(LastCall.text))))
    IN  Len(LastCall.result) = (IF kw.top_n < n THEN kw.top_n ELSE n)

\* one distinct lemma and top_n = 2: one keyword, no padding
C13_Witness ==
  /\ Called
  /\ kw.top_n = 2
  /\ LastCall.text = JoinWords(<<W_Cats, W_cat, W_to>>)
  /\ LastCall.result = <<W_cat>>

\* C14: the keywords come in order of non-increasing frequency, those of equal
\* frequency in order of first occurrence; a lemma left out is no more
\* frequent than any keyword returned, and one as frequent as a keyword
\* returned first occurs after it.
C14_FrequencyThenFirstSeen ==
  Called =>
    LET result == LastCall.result
        lemmas == KeptLemmas(Doc(LastCall.text))
    IN  /\ \A k, l \in 1..Len(result) :
             k < l =>
               \/ Frequency(result[k], lemmas) > Frequency(result[l], lemmas)
               \/ /\ Frequency(result[k], lemmas) = Frequency(result[l], lemmas)
                  /\ FirstAt(result[k], lemmas) < FirstAt(result[l], lemmas)
        /\ \A x \in Distinct(lemmas) \ Distinct(result) :
             \A k \in 1..Len(result) :
               \/ Frequency(x, lemmas) < Frequency(result[k], lemmas)
               \/ /\ Frequency(x, lemmas) = Frequency(result[k], lemmas)
                  /\ FirstAt(x, lemmas) > FirstAt(result[k], lemmas)

\* dog and cat once each, dog first: dog is the one keyword, cat is left out
C14_Witness ==
  /\ Called
  /\ kw.top_n = 1
  /\ LastCall.text = JoinWords(<<W_dog, W_cat>>)
  /\ LastCall.result = <<W_dog>>

\* C15: two calls of one caller on texts that are equal after lower-casing
\* (the same text among them) return the same keywords, whatever calls were
\* made between them.
C15_PureCaseInsensitive ==
  kw # None =>
    \A i, j \in 1..Len(kw.calls) :
      Lower(kw.calls[i].text) = Lower(kw.calls[j].text)
        => kw.calls[i].result = kw.calls[j].result

\* a text with capitals, called as it is and lower-cased
C15_Witness ==
  /\ Called
  /\ Len(kw.calls) = 2
  /\ kw.calls[1].text = JoinWords(<<W_Cats, W_dog>>)
  /\ kw.calls[2].text = JoinWords(<<W_cats, W_dog>>)
  /\ kw.calls[1].result = <<W_cat, W_dog>>
  /\ kw.calls[2].result = <<W_cat, W_dog>>

\* the model was called for the request and returned this payload
Payload(w) == req[w].model_out

\* C16: when the model's payload is not valid JSON, lacks one of the five
\* fields, or carries a field beyond the five, analyze_text returns no
\* metadata and raises the error of the parse or of the validation.
C16_MalformedPayloadRejected ==
  \A w \in DOMAIN req :
    (/\ Payload(w) # None
     /\ Payload(w).kind = "text"
     /\ \/ Payload(w).json = "invalid"
        \/ Payload(w).json = "object" /\ DOMAIN Payload(w).obj # MetadataFields)
      => /\ req[w].metadata = None
         /\ Failed(w)
         /\ req[w].error.origin \in {"json", "validation"}

\* a step keeps every row of the table as it is
RowsKept == \A i \in 1..Len(analyses) : i <= Len(analyses') /\ analyses'[i] = analyses[i]

\* a step that answers a GET / or a GET /search leaves the table as it is
ReadsKeepStore == last_search'.kind \in {"root", "search"} => analyses' = analyses

\* the response of a request answered 201 is among the results of a search of
\* everything made after it
ResponseReturned ==
  \A w \in DOMAIN req :
    req[w].status = 201 /\ Unfiltered =>
      \E i \in 1..SearchResponse.count : SearchResponse.results[i] = req[w].response

\* C17: rows are never changed and never deleted: every step keeps every row
\* with all its fields, GET / and GET /search leave the table unchanged, and
\* the record of a 201 response is returned, field for field, by every later
\* search of everything.
C17_RecordsImmutable == [][RowsKept /\ ReadsKeepStore]_vars /\ []ResponseReturned

\* the second record has been answered 201 and a search of everything returns
\* it, with the first record still in the table
C17_Witness ==
  /\ Unfiltered
  /\ Len(analyses) = 2
  /\ analyses[1].id = 1
  /\ \E w \in DOMAIN req :
       /\ req[w].status = 201
       /\ req[w].response.id = 2
       /\ \E i \in 1..SearchResponse.count : SearchResponse.results[i] = req[w].response

\* C18: within one request the keyword extractor is called exactly once, then
\* analyze_text at most once (the model at most once: no second call after a
\* failure), then the commit at most once; the commit is attempted only after
\* both extractors have returned, and the 201 response is sent only after the
\* commit.
C18_OneCallEachInOrder ==
  \A w \in DOMAIN req :
    /\ req[w].kw_calls <= 1
    /\ req[w].metadata_calls <= 1
    /\ req[w].llm_calls <= req[w].metadata_calls
    /\ req[w].commits <= 1
    /\ Responded(w) /\ req[w].status # 422 => req[w].kw_calls = 1
    /\ req[w].metadata_calls = 1 => req[w].kw_calls = 1
    /\ req[w].commits = 1 =>
         /\ req[w].kw_calls = 1
         /\ req[w].metadata_calls = 1
         /\ req[w].metadata # None
    /\ req[w].status = 201 => req[w].commits = 1 /\ req[w].row_id \in 1..Len(analyses)

\* the model call has failed: the request is answered after one call of each
\* extractor and no commit
C18_Witness ==
  \E w \in DOMAIN req :
    /\ Failed(w)
    /\ req[w].error.origin = "model_call"
    /\ req[w].kw_calls = 1
    /\ req[w].metadata_calls = 1
    /\ req[w].llm_calls = 1
    /\ req[w].commits = 0

====
